---------------------------- MODULE Spec2Model ----------------------------
(***************************************************************************)
(* Model of runtime/debug/stack.go: the human-readable stack formatter     *)
(* (PrintStack, Stack, stack, source, function), the compact location      *)
(* lister (Callers) and the decimal encoder (itoa, uitoa).                 *)
(*                                                                         *)
(* Byte slices are sequences of one-byte tokens: a printable byte is the   *)
(* one-character string, "\n" and "\t" are themselves, and the two bytes   *)
(* of the UTF-8 encoding of the center dot are "C2" and "B7".  File paths  *)
(* are kept as whole strings.                                              *)
(***************************************************************************)
EXTENDS Integers, Sequences

VARIABLES
    callstack,  \* the goroutine's frames, innermost first (Go index k is callstack[k+1])
    disk,       \* file system: path -> contents, or NoSuchFile
    phase,      \* "idle" | "loop" | "done" : position in stack()
    entry,      \* which public entry point called stack()
    i,          \* stack(): loop variable
    buf,        \* stack(): the bytes.Buffer, one record per Fprintf
    lines,      \* stack(): currently loaded file, split into lines
    lastFile,   \* stack(): name of the currently loaded file
    reads,      \* log of the ioutil.ReadFile calls made by stack()
    ret,        \* value returned by Stack()
    stderr,     \* the writes PrintStack made to os.Stderr
    cphase,     \* "idle" | "loop" | "done" | "panic" : position in Callers()
    n,          \* Callers(): argument n
    max,        \* Callers(): argument max
    pc,         \* Callers(): the slice filled by runtime.Callers
    frames,     \* Callers(): the runtime.Frames iterator, what is left of it
    ci,         \* Callers(): loop variable i
    b,          \* Callers(): the bytes built so far
    prev,       \* Callers(): a pair was already written
    cret,       \* value returned by Callers()
    fin,        \* function(): what runtime.FuncForPC found
    fout,       \* value returned by function()
    icall,      \* "" | "itoa" | "uitoa" : the encoder that was called
    ival,       \* itoa()/uitoa(): argument, a machine word
    ust,        \* uitoa(): val, i, buf and whether a write left the buffer
    iphase,     \* "idle" | "loop" | "done" | "panic" : position in uitoa()
    iout        \* value returned by itoa()/uitoa()

stackVars == <<disk, phase, entry, i, buf, lines, lastFile, reads, ret, stderr>>

callersVars == <<cphase, n, max, pc, frames, ci, b, prev, cret>>

fnVars == <<fin, fout>>

itoaVars == <<icall, ival, ust, iphase, iout>>

vars == <<callstack, stackVars, callersVars, fnVars, itoaVars>>

-----------------------------------------------------------------------------
(* Bounds and input sets *)

\* deepest user call chain above the public entry point
MaxDepth == 3

\* ioutil.ReadFile results: err != nil, or the data
NoSuchFile == [ok |-> FALSE, data |-> <<>>]

FileData(bytes) == [ok |-> TRUE, data |-> bytes]

\* runtime.FuncForPC results: nil, or a *Func with its Name()
NoFunc == [ok |-> FALSE, name |-> <<>>]

Func(name) == [ok |-> TRUE, name |-> name]

\* no value returned yet
None == [ok |-> FALSE, val |-> <<>>]

Returned(v) == [ok |-> TRUE, val |-> v]

\* package-level byte slices
dunno == <<"?", "?", "?">>
centerDot == <<"C2", "B7">>
dot == <<".">>

-----------------------------------------------------------------------------
(* bytes helpers *)

\* index of the first occurrence of sep in s at or after position k (1-based), 0 if none
RECURSIVE IndexFrom(_, _, _)
IndexFrom(s, sep, k) ==
    IF k + Len(sep) - 1 > Len(s) THEN 0
    ELSE IF SubSeq(s, k, k + Len(sep) - 1) = sep THEN k
    ELSE IndexFrom(s, sep, k + 1)

\* bytes.Index, 0-based, -1 when absent
Index(s, sep) == IndexFrom(s, sep, 1) - 1

\* bytes.Split(s, sep) with a non-empty sep: n separators give n+1 pieces
RECURSIVE Split(_, _)
Split(s, sep) ==
    LET k == IndexFrom(s, sep, 1)
    IN  IF k = 0 THEN <<s>>
        ELSE <<SubSeq(s, 1, k - 1)>> \o Split(SubSeq(s, k + Len(sep), Len(s)), sep)

\* bytes.Replace(s, old, new, -1) with a non-empty old: left to right, no overlap
RECURSIVE Replace(_, _, _)
Replace(s, old, new) ==
    LET k == IndexFrom(s, old, 1)
    IN  IF k = 0 THEN s
        ELSE SubSeq(s, 1, k - 1) \o new \o Replace(SubSeq(s, k + Len(old), Len(s)), old, new)

RECURSIVE TrimLeft(_, _)
TrimLeft(s, cutset) ==
    IF s # <<>> /\ Head(s) \in cutset THEN TrimLeft(Tail(s), cutset) ELSE s

RECURSIVE TrimRight(_, _)
TrimRight(s, cutset) ==
    IF s # <<>> /\ s[Len(s)] \in cutset THEN TrimRight(SubSeq(s, 1, Len(s) - 1), cutset) ELSE s

\* bytes.Trim(s, cutset)
Trim(s, cutset) == TrimRight(TrimLeft(s, cutset), cutset)

-----------------------------------------------------------------------------
(* source and function *)

\* mutation: the line is returned untrimmed
sourceNoTrim(ls, k) ==
    IF k < 0 \/ k >= Len(ls) THEN dunno
    ELSE ls[k + 1]

\* source(lines, n): k is the 0-based index n
source(ls, k) ==
    IF k < 0 \/ k >= Len(ls) THEN dunno
    ELSE Trim(ls[k + 1], {" ", "\t"})

\* the package-path cut of function(): drop everything up to the first dot
CutPackage(name) ==
    LET period == Index(name, dot)
    IN  IF period >= 0 THEN SubSeq(name, period + 2, Len(name)) ELSE name

\* function(pc), given what runtime.FuncForPC(pc) found: NoFunc or the raw name
function(fn) ==
    IF ~fn.ok THEN dunno
    ELSE Replace(CutPackage(fn.name), centerDot, dot)

-----------------------------------------------------------------------------
(* Machine words.  An int or uint is 64 bits wide; a word is kept as its bit  *)
(* pattern, four 16-bit limbs, most significant first, so that arithmetic is  *)
(* exact modulo 2^64.                                                          *)

\* width of int and uint
Width == 64

Base == 2 ^ 16

NumLimbs == Width \div 16

\* the word of a small natural number
Word(k) == [j \in 1..(NumLimbs - 1) |-> 0] \o <<k>>

IsZero(w) == \A j \in 1..NumLimbs : w[j] = 0

\* val < 0 for a signed word: the top bit
IsNeg(w) == w[1] >= Base \div 2

\* val >= 10 for an unsigned word
Ge10(w) == w[NumLimbs] >= 10 \/ \E j \in 1..(NumLimbs - 1) : w[j] # 0

\* long division by 10 from limb j on, r the remainder carried in and acc the
\* quotient limbs so far
RECURSIVE DivFrom(_, _, _, _)
DivFrom(w, j, r, acc) ==
    IF j > Len(w) THEN [q |-> acc, r |-> r]
    ELSE DivFrom(w, j + 1, (r * Base + w[j]) % 10, Append(acc, (r * Base + w[j]) \div 10))

\* val / 10 for an unsigned word
Div10(w) == DivFrom(w, 1, 0, <<>>).q

\* val - (val / 10) * 10 for an unsigned word
Mod10(w) == DivFrom(w, 1, 0, <<>>).r

\* the complement of w plus the carry, from limb j down to the top limb
RECURSIVE NegFrom(_, _, _, _)
NegFrom(w, j, carry, acc) ==
    IF j = 0 THEN acc
    ELSE NegFrom(w, j - 1, (Base - 1 - w[j] + carry) \div Base,
                 <<(Base - 1 - w[j] + carry) % Base>> \o acc)

\* -val modulo 2^64
Neg(w) == NegFrom(w, Len(w), 1, <<>>)

-----------------------------------------------------------------------------
(* itoa and uitoa *)

\* mutation: the buffer is one byte short of the longest value
BufLenShort == 20 - 1

\* var buf [20]byte
BufLen == 20

Digits == <<"0", "1", "2", "3", "4", "5", "6", "7", "8", "9">>

\* byte('0' + d)
DigitByte(d) == Digits[d + 1]

\* uitoa after its zero test: buf zeroed, i := len(buf) - 1
UitoaStart(w) ==
    [val |-> w, i |-> BufLen - 1, buf |-> [k \in 0..(BufLen - 1) |-> "NUL"], fault |-> FALSE]

\* a write buf[i] = c: an index outside the array is a run-time panic
UitoaWrite(st, c) ==
    IF st.i \in 0..(BufLen - 1)
    THEN [st EXCEPT !.buf = [st.buf EXCEPT ![st.i] = c]]
    ELSE [st EXCEPT !.fault = TRUE]

\* one iteration of for val >= 10
UitoaStep(st) ==
    LET q == Div10(st.val)
        w == UitoaWrite(st, DigitByte(Mod10(st.val)))
    IN  IF w.fault THEN w ELSE [w EXCEPT !.i = st.i - 1, !.val = q]

\* after the loop: buf[i] = byte('0' + val)
UitoaLast(st) == UitoaWrite(st, DigitByte(st.val[NumLimbs]))

\* string(buf[i:])
UitoaString(st) == [k \in 1..(BufLen - st.i) |-> st.buf[st.i + k - 1]]

RECURSIVE UitoaRun(_)
UitoaRun(st) ==
    IF st.fault THEN st
    ELSE IF Ge10(st.val) THEN UitoaRun(UitoaStep(st))
    ELSE UitoaLast(st)

\* uitoa(val), for a call that does not panic
uitoa(w) ==
    IF IsZero(w) THEN <<"0">> ELSE UitoaString(UitoaRun(UitoaStart(w)))

\* the argument itoa passes to uitoa: uint(-val) or uint(val)
ItoaMagnitude(w) == IF IsNeg(w) THEN Neg(w) ELSE w

\* what itoa puts in front of uitoa's result
ItoaSign(w) == IF IsNeg(w) THEN <<"-">> ELSE <<>>

\* itoa(val)
itoa(w) == ItoaSign(w) \o uitoa(ItoaMagnitude(w))

-----------------------------------------------------------------------------
(* The components at rest: what each holds while another one runs *)

StackIdle ==
    /\ disk = <<>>
    /\ phase = "idle"
    /\ entry = ""
    /\ i = 0
    /\ buf = <<>>
    /\ lines = <<>>
    /\ lastFile = ""
    /\ reads = <<>>
    /\ ret = None
    /\ stderr = <<>>

CallersIdle ==
    /\ cphase = "idle"
    /\ n = 0
    /\ max = 0
    /\ pc = <<>>
    /\ frames = <<>>
    /\ ci = 0
    /\ b = <<>>
    /\ prev = FALSE
    /\ cret = None

FnIdle ==
    /\ fin = NoFunc
    /\ fout = None

\* uitoa's locals before any call
UitoaIdle == [val |-> Word(0), i |-> 0, buf |-> <<>>, fault |-> FALSE]

ItoaIdle ==
    /\ icall = ""
    /\ ival = Word(0)
    /\ ust = UitoaIdle
    /\ iphase = "idle"
    /\ iout = None

-----------------------------------------------------------------------------
(* The environment of a Stack run *)

\* call sites of user frames, <<pc, line>>: line 0 gives index -1, line 1 is
\* in both files, line 2 is in a.go and past the end of b.go
UserSites == {<<3, 0>>, <<3, 1>>, <<3, 2>>, <<4, 2>>}

\* the runtime's symbol table: pc 3 resolves, pc 4 does not

FuncForPC(addr) ==
    IF addr = 3 THEN Func(<<"p", ".", "T", "C2", "B7", "m">>) ELSE NoFunc

UserFiles == {"", "a.go", "b.go"}

UserFrames == {[pc |-> s[1], file |-> f, line |-> s[2]] : f \in UserFiles, s \in UserSites}

RECURSIVE SeqsUpTo(_, _)
SeqsUpTo(S, len) ==
    IF len = 0 THEN {<<>>}
    ELSE LET shorter == SeqsUpTo(S, len - 1)
         IN  shorter \cup {Append(s, x) : s \in {t \in shorter : Len(t) = len - 1}, x \in S}

\* b.go is on disk; a.go may be missing; any other path, "" included, is not there
Disks ==
    { [f \in {"a.go", "b.go"} |-> IF f = "a.go" THEN da ELSE FileData(<<"z">>)] :
        da \in {NoSuchFile, FileData(<<"x", "\n", "\t", "y", " ">>)} }

\* ioutil.ReadFile: the data, or NoSuchFile for err != nil
ReadFile(file) ==
    IF file \in DOMAIN disk THEN disk[file] ELSE NoSuchFile

\* frames of stack() itself and of its exported caller
stackFrame == [pc |-> 1, file |-> "stack.go", line |-> 44]

entryFrame(e) ==
    [pc |-> 2, file |-> "stack.go", line |-> IF e = "Stack" THEN 33 ELSE 25]

\* runtime.Caller(k): the frame k levels above stack(), ok = FALSE past the end
CallerOk(k) == k >= 0 /\ k < Len(callstack)

Caller(k) == callstack[k + 1]

-----------------------------------------------------------------------------
(* stack() *)

\* mutation: the walk starts one frame too low
FirstCallerOff == 2 - 1

\* for i := 2
FirstCaller == 2

\* mutation: a failed read is remembered as the loaded file
AfterErrorRemember(file, last, ls) == [lastFile |-> file, lines |-> ls]

\* mutation: a failed read drops the loaded lines
AfterErrorDrop(file, last, ls) == [lastFile |-> last, lines |-> <<>>]

\* lastFile and lines after ioutil.ReadFile(file) returned an error: the
\* continue leaves both alone
AfterError(file, last, ls) == [lastFile |-> last, lines |-> ls]

\* the condition guarding the read
NeedRead(file, last) == file # last

LocLine(fr) == [kind |-> "loc", file |-> fr.file, line |-> fr.line, pc |-> fr.pc]

SrcLine(fr, ls) ==
    [kind |-> "src", fn |-> function(FuncForPC(fr.pc)), text |-> source(ls, fr.line - 1)]

InitStack ==
    /\ callstack \in SeqsUpTo(UserFrames, MaxDepth)
    /\ disk \in Disks
    /\ phase = "idle"
    /\ entry = ""
    /\ i = 0
    /\ buf = <<>>
    /\ lines = <<>>
    /\ lastFile = ""
    /\ reads = <<>>
    /\ ret = None
    /\ stderr = <<>>
    /\ CallersIdle
    /\ FnIdle
    /\ ItoaIdle

\* a public entry point is called and calls stack(): locals initialised
Enter(e) ==
    /\ phase = "idle"
    /\ phase' = "loop"
    /\ entry' = e
    /\ callstack' = <<stackFrame, entryFrame(e)>> \o callstack
    /\ i' = FirstCaller
    /\ buf' = <<>>
    /\ lines' = <<>>
    /\ lastFile' = ""
    /\ UNCHANGED <<disk, reads, ret, stderr, callersVars, fnVars, itoaVars>>

Stack == Enter("Stack")

PrintStack == Enter("PrintStack")

\* one iteration of the loop of stack() for which runtime.Caller reports ok
StackIter ==
    /\ phase = "loop"
    /\ CallerOk(i)
    /\ LET fr == Caller(i)
           data == ReadFile(fr.file)
           loc == Append(buf, LocLine(fr))
       IN  IF NeedRead(fr.file, lastFile)
           THEN /\ reads' = Append(reads, [frame |-> i, file |-> fr.file, ok |-> data.ok])
                /\ IF ~data.ok
                   THEN /\ buf' = loc
                        /\ lastFile' = AfterError(fr.file, lastFile, lines).lastFile
                        /\ lines' = AfterError(fr.file, lastFile, lines).lines
                   ELSE /\ lines' = Split(data.data, <<"\n">>)
                        /\ lastFile' = fr.file
                        /\ buf' = Append(loc, SrcLine(fr, lines'))
           ELSE /\ buf' = Append(loc, SrcLine(fr, lines))
                /\ UNCHANGED <<reads, lines, lastFile>>
    /\ i' = i + 1
    /\ UNCHANGED <<callstack, disk, phase, entry, ret, stderr, callersVars, fnVars, itoaVars>>

\* runtime.Caller reports !ok: break, return buf.Bytes(); PrintStack writes it
\* to os.Stderr and ignores the result of the Write
StackReturn ==
    /\ phase = "loop"
    /\ ~CallerOk(i)
    /\ phase' = "done"
    /\ IF entry = "Stack"
       THEN ret' = Returned(buf) /\ stderr' = stderr
       ELSE ret' = ret /\ \E written \in BOOLEAN :
                            stderr' = IF written THEN Append(stderr, buf) ELSE stderr
    /\ UNCHANGED <<callstack, disk, entry, i, buf, lines, lastFile, reads>>
    /\ UNCHANGED <<callersVars, fnVars, itoaVars>>

NextStack == Stack \/ PrintStack \/ StackIter \/ StackReturn

SpecStack == InitStack /\ [][NextStack]_vars

-----------------------------------------------------------------------------
(* Callers() *)

\* deepest user call chain above Callers
MaxCallers == 3

\* largest n passed to Callers
MaxSkip == 3

\* largest max passed to Callers
MaxCount == 2

CallerFrames == [file : {"a.go", "b.go"}, line : {7, 10}]

\* the frame runtime.Callers records for skip = 0: runtime.Callers itself
runtimeCallersFrame == [file |-> "extern.go", line |-> 325]

\* the frame of Callers, at its call of runtime.Callers
callersFrame == [file |-> "stack.go", line |-> 97]

\* len of make([]uintptr, max*2)
PcCap(skip, count) == count * 2

\* runtime.Callers(0, pc): how many entries it fills, starting with its own frame
RuntimeCallers(stk, cap) == IF Len(stk) < cap THEN Len(stk) ELSE cap

\* frames.Next(): the next frame and whether more follow, the zero Frame
\* once the iterator is exhausted
FramesNext(fs) ==
    IF fs = <<>> THEN [frame |-> [file |-> "", line |-> 0], more |-> FALSE, rest |-> <<>>]
    ELSE [frame |-> Head(fs), more |-> Tail(fs) # <<>>, rest |-> Tail(fs)]

\* the appends of one i >= n iteration
AppendPair(bytes, sep, frame) ==
    (IF sep THEN Append(bytes, " ") ELSE bytes)
        \o <<frame.file>> \o <<":">> \o itoa(Word(frame.line))

InitCallers ==
    /\ callstack \in SeqsUpTo(CallerFrames, MaxCallers)
    /\ StackIdle
    /\ CallersIdle
    /\ FnIdle
    /\ ItoaIdle

\* Callers(n, max) up to its loop: make panics on a negative length, and an
\* empty pc slice returns nil
Callers ==
    /\ cphase = "idle"
    /\ \E skip \in -1..MaxSkip, count \in -1..MaxCount :
          LET stk == <<runtimeCallersFrame, callersFrame>> \o callstack
              filled == SubSeq(stk, 1, RuntimeCallers(stk, PcCap(skip, count)))
          IN  /\ n' = skip
              /\ max' = count
              /\ IF PcCap(skip, count) < 0
                 THEN /\ cphase' = "panic"
                      /\ UNCHANGED <<callstack, pc, frames, cret>>
                 ELSE /\ callstack' = stk
                      /\ pc' = filled
                      /\ IF Len(filled) = 0
                         THEN cphase' = "done" /\ cret' = Returned(<<>>) /\ frames' = frames
                         ELSE cphase' = "loop" /\ cret' = cret /\ frames' = filled
    /\ ci' = 0
    /\ b' = <<>>
    /\ prev' = FALSE
    /\ UNCHANGED <<stackVars, fnVars, itoaVars>>

\* one iteration of for i := 0; i < n+max; i++
CallersIter ==
    /\ cphase = "loop"
    /\ ci < n + max
    /\ LET nx == FramesNext(frames)
       IN  /\ frames' = nx.rest
           /\ IF ci >= n
              THEN b' = AppendPair(b, prev, nx.frame) /\ prev' = TRUE
              ELSE b' = b /\ prev' = prev
           /\ IF ~nx.more
              THEN cphase' = "done" /\ cret' = Returned(b') /\ ci' = ci
              ELSE cphase' = cphase /\ cret' = cret /\ ci' = ci + 1
    /\ UNCHANGED <<callstack, n, max, pc, stackVars, fnVars, itoaVars>>

\* the loop condition fails: return b
CallersReturn ==
    /\ cphase = "loop"
    /\ ~(ci < n + max)
    /\ cphase' = "done"
    /\ cret' = Returned(b)
    /\ UNCHANGED <<callstack, n, max, pc, frames, ci, b, prev, stackVars, fnVars, itoaVars>>

NextCallers == Callers \/ CallersIter \/ CallersReturn

SpecCallers == InitCallers /\ [][NextCallers]_vars

-----------------------------------------------------------------------------
(* function() on arbitrary symbol names *)

\* longest raw symbol name
MaxName == 5

NameBytes == {"p", "/", ".", "C2", "B7"}

InitFunction ==
    /\ fin \in {NoFunc} \cup {Func(name) : name \in SeqsUpTo(NameBytes, MaxName)}
    /\ fout = None
    /\ callstack = <<>>
    /\ StackIdle
    /\ CallersIdle
    /\ ItoaIdle

\* function(pc) is called and returns
Function ==
    /\ ~fout.ok
    /\ fout' = Returned(function(fin))
    /\ UNCHANGED <<callstack, fin, stackVars, callersVars, itoaVars>>

NextFunction == Function

SpecFunction == InitFunction /\ [][NextFunction]_vars

-----------------------------------------------------------------------------
(* itoa() and uitoa() on machine words *)

\* limb values the arguments are built from: every word with these limbs
EdgeLimbs == {0, 1, 9, 10, Base \div 2 - 1, Base \div 2, Base - 1}

InitItoa ==
    /\ ival \in [1..NumLimbs -> EdgeLimbs]
    /\ icall = ""
    /\ ust = UitoaIdle
    /\ iphase = "idle"
    /\ iout = None
    /\ callstack = <<>>
    /\ StackIdle
    /\ CallersIdle
    /\ FnIdle

\* a call of uitoa with the word w, after which sign is put in front:
\* the zero test returns "0" at once, otherwise the loop is entered
EnterUitoa(who, w, sign) ==
    /\ iphase = "idle"
    /\ icall' = who
    /\ IF IsZero(w)
       THEN iphase' = "done" /\ iout' = Returned(sign \o <<"0">>) /\ ust' = ust
       ELSE iphase' = "loop" /\ iout' = iout /\ ust' = UitoaStart(w)
    /\ UNCHANGED <<callstack, ival, stackVars, callersVars, fnVars>>

\* itoa(val): val read as a signed word
Itoa == EnterUitoa("itoa", ItoaMagnitude(ival), ItoaSign(ival))

\* uitoa(val): val read as an unsigned word
Uitoa == EnterUitoa("uitoa", ival, <<>>)

\* one iteration of for val >= 10
UitoaIter ==
    /\ iphase = "loop"
    /\ Ge10(ust.val)
    /\ ust' = UitoaStep(ust)
    /\ iphase' = IF ust'.fault THEN "panic" ELSE "loop"
    /\ UNCHANGED <<callstack, icall, ival, iout, stackVars, callersVars, fnVars>>

\* val < 10: the last digit, and the string is returned (through itoa, which
\* puts the sign in front)
UitoaReturn ==
    /\ iphase = "loop"
    /\ ~Ge10(ust.val)
    /\ ust' = UitoaLast(ust)
    /\ IF ust'.fault
       THEN iphase' = "panic" /\ iout' = iout
       ELSE /\ iphase' = "done"
            /\ iout' = Returned((IF icall = "itoa" THEN ItoaSign(ival) ELSE <<>>)
                                    \o UitoaString(ust'))
    /\ UNCHANGED <<callstack, icall, ival, stackVars, callersVars, fnVars>>

NextItoa == Itoa \/ Uitoa \/ UitoaIter \/ UitoaReturn

SpecItoa == InitItoa /\ [][NextItoa]_vars

-----------------------------------------------------------------------------
(* Properties of a Stack run *)

\* the user's frames, outermost last: what lies above the public entry point
UserStack == SubSeq(callstack, 3, Len(callstack))

\* positions in buf of the location lines, in order
LocPos == SelectSeq([p \in 1..Len(buf) |-> p], LAMBDA p : buf[p].kind = "loc")

\* the block of the location line at position p has a second line
HasSrc(p) == p < Len(buf) /\ buf[p + 1].kind = "src"

Readable(file) == ReadFile(file).ok

\* the lines of a file on disk, split independently of the cache
LinesOnDisk(file) == Split(ReadFile(file).data, <<"\n">>)

Contains(s, sub) == IndexFrom(s, sub, 1) # 0

\* file of the latest frame before user frame k whose file is readable, "" if none
RECURSIVE LastGood(_)
LastGood(k) ==
    IF k <= 1 THEN ""
    ELSE IF Readable(UserStack[k - 1].file) THEN UserStack[k - 1].file
    ELSE LastGood(k - 1)

\* the read attempts logged for user frame k (Go index k + 1)
ReadsAt(k) == SelectSeq(reads, LAMBDA r : r.frame = k + 1)

\* C1: one location line per frame, in walk order, from the frame that invoked
\* the public entry point to the last frame; the frames of stack() and of
\* Stack/PrintStack are not emitted, none is repeated or left out, and the
\* finished buffer is what Stack returns and what PrintStack writes.
C1_OneLocationLinePerFrame ==
    phase # "idle" =>
        /\ Len(LocPos) <= Len(UserStack)
        /\ \A k \in 1..Len(LocPos) :
              /\ buf[LocPos[k]].file = UserStack[k].file
              /\ buf[LocPos[k]].line = UserStack[k].line
              /\ buf[LocPos[k]].pc = UserStack[k].pc
        /\ phase = "done" =>
              /\ Len(LocPos) = Len(UserStack)
              /\ entry = "Stack" => ret = Returned(buf)
              /\ entry = "PrintStack" => stderr \in {<<>>, <<buf>>}

C1_Witness ==
    /\ phase = "done"
    /\ entry = "PrintStack"
    /\ Len(UserStack) >= 2
    /\ UserStack[1] # UserStack[2]
    /\ stderr = <<buf>>
    /\ Len(LocPos) = Len(UserStack)

\* C2: a frame whose file cannot be read gets the location line only, no
\* second line and no sentinel, whatever path it names and wherever it sits.
C2_UnreadableFrameLocationOnly ==
    phase # "idle" =>
        \A k \in 1..Len(LocPos) :
            ~Readable(buf[LocPos[k]].file) => ~HasSrc(LocPos[k])

\* C6 as stated: all files readable and all lines in range give two-line
\* blocks and no sentinel anywhere in the output.
C6_NoSentinelWhenSourceFound ==
    (/\ phase = "done"
     /\ \A k \in 1..Len(UserStack) :
           /\ Readable(UserStack[k].file)
           /\ UserStack[k].line - 1 \in 0..(Len(LinesOnDisk(UserStack[k].file)) - 1))
    => /\ Len(buf) = 2 * Len(UserStack)
       /\ \A k \in 1..Len(UserStack) :
             /\ buf[2 * k - 1].kind = "loc"
             /\ buf[2 * k].kind = "src"
             /\ ~Contains(buf[2 * k].fn, dunno)
             /\ ~Contains(buf[2 * k].text, dunno)

\* C6 amended: with, in addition, every program counter resolved to a
\* function, every block is the location line and the second line, the second
\* line carries the cleaned name and the trimmed text of that line of the
\* frame's own file, and neither is the sentinel.
C6_TwoLinesWhenAllResolved ==
    (/\ phase = "done"
     /\ \A k \in 1..Len(UserStack) :
           /\ Readable(UserStack[k].file)
           /\ UserStack[k].line - 1 \in 0..(Len(LinesOnDisk(UserStack[k].file)) - 1)
           /\ FuncForPC(UserStack[k].pc).ok)
    => /\ Len(buf) = 2 * Len(UserStack)
       /\ \A k \in 1..Len(UserStack) :
             /\ buf[2 * k - 1].kind = "loc"
             /\ buf[2 * k].kind = "src"
             /\ buf[2 * k].text =
                    Trim(LinesOnDisk(UserStack[k].file)[UserStack[k].line], {" ", "\t"})
             /\ ~Contains(buf[2 * k].fn, dunno)
             /\ ~Contains(buf[2 * k].fn, centerDot)
             /\ ~Contains(buf[2 * k].text, dunno)

C6_Witness ==
    /\ phase = "done"
    /\ Len(UserStack) >= 2
    /\ UserStack[1].file # UserStack[2].file
    /\ \A k \in 1..Len(UserStack) :
          /\ Readable(UserStack[k].file)
          /\ UserStack[k].line - 1 \in 0..(Len(LinesOnDisk(UserStack[k].file)) - 1)
          /\ FuncForPC(UserStack[k].pc).ok
    /\ Len(buf) = 2 * Len(UserStack)

\* C9 as stated: after a failed read of F, the next frame naming F causes no
\* further read attempt.
C9_NoRetryAfterFailedRead ==
    phase # "idle" =>
        \A k \in 1..(Len(LocPos) - 1) :
            (/\ UserStack[k].file = UserStack[k + 1].file
             /\ \E r \in 1..Len(reads) : reads[r].frame = k + 1 /\ ~reads[r].ok)
            => ReadsAt(k + 1) = <<>>

\* C9 amended: a frame causes exactly one read attempt when its file differs
\* from the last file read successfully (the empty path before any), and none
\* otherwise; so k consecutive frames of one unreadable file cause k attempts.
C9_OneReadPerFrameOffTheCache ==
    phase # "idle" =>
        /\ \A k \in 1..Len(LocPos) :
              IF UserStack[k].file # LastGood(k)
              THEN ReadsAt(k) = <<[frame |-> k + 1, file |-> UserStack[k].file,
                                   ok |-> Readable(UserStack[k].file)]>>
              ELSE ReadsAt(k) = <<>>
        /\ \A r \in 1..Len(reads) : reads[r].frame \in 2..(Len(LocPos) + 1)
        /\ \A r \in 1..(Len(reads) - 1) : reads[r].frame < reads[r + 1].frame

C9_Witness ==
    /\ phase = "done"
    /\ Len(UserStack) >= 2
    /\ UserStack[1].file = "a.go"
    /\ UserStack[2].file = "a.go"
    /\ ~Readable("a.go")
    /\ Len(reads) >= 2
    /\ reads[1] = [frame |-> 2, file |-> "a.go", ok |-> FALSE]
    /\ reads[2] = [frame |-> 3, file |-> "a.go", ok |-> FALSE]

\* the successful reads logged so far
GoodReads == SelectSeq(reads, LAMBDA r : r.ok)

\* C10: lines is the split contents of lastFile as of its last successful
\* read, empty while lastFile is still empty; lastFile is the file of the last
\* successful read, so a failed read changes neither; and every second line
\* takes its text from the file named in its own frame.
C10_CacheConsistent ==
    phase # "idle" =>
        /\ lastFile = (IF GoodReads = <<>> THEN "" ELSE GoodReads[Len(GoodReads)].file)
        /\ lines = (IF lastFile = "" THEN <<>> ELSE LinesOnDisk(lastFile))
        /\ \A k \in 1..Len(LocPos) :
              HasSrc(LocPos[k]) =>
                  buf[LocPos[k] + 1].text =
                      source(IF Readable(UserStack[k].file)
                             THEN LinesOnDisk(UserStack[k].file) ELSE <<>>,
                             UserStack[k].line - 1)

C10_Witness ==
    /\ phase = "done"
    /\ Len(UserStack) = 3
    /\ Len(reads) = 2
    /\ reads[1].ok /\ reads[2].ok
    /\ reads[1].file # reads[2].file
    /\ HasSrc(LocPos[3])
    /\ lastFile = reads[2].file

-----------------------------------------------------------------------------
(* Properties of a Callers run *)

\* decimal digits of a natural number, most significant first
RECURSIVE DecOf(_)
DecOf(k) ==
    IF k < 10 THEN <<Digits[k + 1]>> ELSE DecOf(k \div 10) \o <<Digits[(k % 10) + 1]>>

\* the bytes of one file:line pair
PairOf(frame) == <<frame.file, ":">> \o DecOf(frame.line)

\* pairs joined by single spaces
RECURSIVE JoinPairs(_)
JoinPairs(fs) ==
    IF fs = <<>> THEN <<>>
    ELSE IF Len(fs) = 1 THEN PairOf(fs[1])
    ELSE PairOf(fs[1]) \o <<" ">> \o JoinPairs(Tail(fs))

Smaller(x, y) == IF x < y THEN x ELSE y

\* C3: the first pair is the frame n entries above the caller of Callers, and
\* Callers(0, 1) is exactly the pair of the immediate caller.  After the call
\* callstack[3] is the caller of Callers.
C3_StartsAtTheCaller ==
    (cphase = "done" /\ n >= 0 /\ max >= 1 /\ Len(callstack) >= n + 3)
    => /\ SubSeq(cret.val, 1, Len(PairOf(callstack[n + 3]))) = PairOf(callstack[n + 3])
       /\ (n = 0 /\ max = 1) => cret.val = PairOf(callstack[3])

\* C4: the first n frames of the walk are dropped and the frames at walk
\* positions n .. n+max-1 that exist are emitted, in order, single-spaced:
\* min(max, max(0, D - n)) pairs of a stack of D frames.
C4_EmitsTheWindow ==
    (cphase = "done" /\ n >= 0 /\ max >= 1)
    => cret.val = JoinPairs(SubSeq(callstack, n + 1, Smaller(n + max, Len(callstack))))

\* C5: no call reaches a fault state, whatever the arguments.
C5_NeverFaults == cphase # "panic"

-----------------------------------------------------------------------------
(* Properties of function() *)

RECURSIVE LastSlash(_)
LastSlash(name) ==
    IF name = <<>> THEN 0
    ELSE IF name[Len(name)] = "/" THEN Len(name)
    ELSE LastSlash(SubSeq(name, 1, Len(name) - 1))

\* position of the dot that ends the package path: the first one after the
\* last slash, 0 if the name has none
PackageDot(name) == IndexFrom(name, dot, LastSlash(name) + 1)

\* C7: a name <package path>.<rest> gives <rest> with every center dot turned
\* into a dot, free of the package path and of center dots; a failed lookup
\* gives "???".
C7_PackagePathStripped ==
    fout.ok =>
        IF ~fin.ok THEN fout.val = dunno
        ELSE PackageDot(fin.name) # 0 =>
                /\ fout.val = Replace(SubSeq(fin.name, PackageDot(fin.name) + 1, Len(fin.name)),
                                      centerDot, dot)
                /\ ~Contains(fout.val, centerDot)

-----------------------------------------------------------------------------
(* Properties of itoa() and uitoa() *)

IsDigits(ds) == ds # <<>> /\ \A k \in 1..Len(ds) : \E d \in 1..10 : ds[k] = Digits[d]

DigitVal(c) == CHOOSE d \in 0..9 : Digits[d + 1] = c

\* w * 10 + carry, from limb j down to the top limb
RECURSIVE MulAddFrom(_, _, _, _)
MulAddFrom(w, j, carry, acc) ==
    IF j = 0 THEN acc
    ELSE MulAddFrom(w, j - 1, (w[j] * 10 + carry) \div Base,
                    <<(w[j] * 10 + carry) % Base>> \o acc)

\* an unsigned word widened by a zero limb
Wide(w) == <<0>> \o w

\* value of the digits from position k on, acc the value of those before
RECURSIVE DecFrom(_, _, _)
DecFrom(ds, k, acc) ==
    IF k > Len(ds) THEN acc
    ELSE DecFrom(ds, k + 1, MulAddFrom(acc, Len(acc), DigitVal(ds[k]), <<>>))

\* base-10 value of a digit string, one limb wider than a word
DecValue(ds) == DecFrom(ds, 1, Wide(Word(0)))

\* the digit string ds is the decimal of the unsigned word w
IsDecimalOf(ds, w) ==
    /\ IsDigits(ds)
    /\ Len(ds) = 1 \/ ds[1] # "0"
    /\ DecValue(ds) = Wide(w)

MinInt == <<Base \div 2>> \o [j \in 1..(NumLimbs - 1) |-> 0]

\* the write index stays inside buf and no write panics
IndexInBounds ==
    /\ iphase # "panic"
    /\ iphase = "loop" => ust.i \in 0..(BufLen - 1)

\* C8 as stated: n >= 0 gives the unsigned decimal of n, "0" for 0; n < 0
\* gives "-" followed by itoa(-n), the most negative value included; the
\* write index of uitoa stays inside the 20-byte buffer.
C8_NegativeIsMinusItoaOfNegation ==
    /\ IndexInBounds
    /\ (iphase = "done" /\ icall = "uitoa") => IsDecimalOf(iout.val, ival)
    /\ (iphase = "done" /\ icall = "itoa") =>
          IF ~IsNeg(ival)
          THEN /\ IsDecimalOf(iout.val, ival)
               /\ IsZero(ival) => iout.val = <<"0">>
          ELSE iout.val = <<"-">> \o itoa(Neg(ival))

\* C8 amended: n < 0 gives "-" followed by the decimal of the magnitude 2^64 - n
\* read unsigned, which is itoa(-n) for every n but the most negative one.
C8_NegativeIsMinusMagnitude ==
    /\ IndexInBounds
    /\ (iphase = "done" /\ icall = "uitoa") => IsDecimalOf(iout.val, ival)
    /\ (iphase = "done" /\ icall = "itoa") =>
          IF ~IsNeg(ival)
          THEN /\ IsDecimalOf(iout.val, ival)
               /\ IsZero(ival) => iout.val = <<"0">>
          ELSE /\ Head(iout.val) = "-"
               /\ IsDecimalOf(Tail(iout.val), Neg(ival))
               /\ ival # MinInt => iout.val = <<"-">> \o itoa(Neg(ival))
               /\ ival = MinInt => iout.val # <<"-">> \o itoa(Neg(ival))

C8_Witness ==
    /\ iphase = "done"
    /\ icall = "itoa"
    /\ ival = MinInt
    /\ Len(iout.val) = BufLen
    /\ ust.i = 1

=============================================================================
